---- MODULE Spec2Model ----
\* Almanac retrieval and caching: get_calander_info (agents/calander.py) over the
\* SQLite cache (pkg/sqlite/sqlite.py) and the remote client (pkg/calender/calendar_api.py).
EXTENDS Integers, Sequences, FiniteSets, TLC

\* ---------------------------------------------------------------- bounds
\* Largest value the wall clock takes.
MaxClock == 1
\* Calls one caller makes in the single-caller specification.
MaxCalls == 2

\* Operations made on the client a CalendarAgent keeps.
MaxOps == 3

Procs == {1, 2}
Families == {"day", "hour"}
\* (year, month, day) inputs of get_calander_info.
CalendarDates == {<<2025, 1, 1>>, <<2025, 12, 1>>}
\* Contents the remote service may answer with.
Vals == {"a", "b"}

\* ---------------------------------------------------------------- values
\* Python's None, and a dict as the sequence of its (key, value) items.
PyNone == [t |-> "None"]
Dict(items) == [t |-> "dict", items |-> items]
\* Python truthiness of an Optional[Dict]: None and {} are falsy.
Truthy(v) == v.t = "dict" /\ Len(v.items) > 0

\* dict.get(key): the value of the first item with that key, or "" when there is none.
DictGet(v, key) ==
    IF v.t = "dict" /\ \E i \in 1..Len(v.items) : v.items[i][1] = key
    THEN v.items[CHOOSE i \in 1..Len(v.items) : v.items[i][1] = key][2]
    ELSE ""

\* A response body {code: c, ...: v} of the remote service.
Body(c, v) == Dict(<< <<"code", c>>, <<"v", v>> >>)

\* ---------------------------------------------------------------- json
\* json.dumps(dict): the text as a token sequence  { k1 v1 k2 v2 ... }.
RECURSIVE Flatten(_)
Flatten(items) ==
    IF Len(items) = 0 THEN <<>>
    ELSE <<items[1][1], items[1][2]>> \o Flatten(Tail(items))

dumps(v) == <<"{">> \o Flatten(v.items) \o <<"}">>

\* json.loads raises on text that is not a well-formed object.
Decodable(s) ==
    /\ Len(s) >= 2
    /\ s[1] = "{"
    /\ s[Len(s)] = "}"
    /\ (Len(s) - 2) % 2 = 0

\* json.loads(text) for decodable text.
loads(s) == Dict([i \in 1..((Len(s) - 2) \div 2) |-> <<s[2 * i], s[2 * i + 1]>>])

\* Stored texts that put never writes but the data column admits.
SqlNull == <<"NULL">>
EmptyText == <<>>
EmptyObject == <<"{", "}">>
Malformed == <<"{", "code">>

\* ---------------------------------------------------------------- date key
DigitChar(n) ==
    CASE n = 0 -> "0" [] n = 1 -> "1" [] n = 2 -> "2" [] n = 3 -> "3" [] n = 4 -> "4"
      [] n = 5 -> "5" [] n = 6 -> "6" [] n = 7 -> "7" [] n = 8 -> "8" [] OTHER -> "9"

\* str(n) for n >= 0.
RECURSIVE Str(_)
Str(n) == IF n < 10 THEN <<DigitChar(n)>> ELSE Str(n \div 10) \o <<DigitChar(n % 10)>>

\* A wrong format: no zero padding.
Pad02_Plain(n) == Str(n)

\* format(n, "02d").
Pad02(n) == IF n < 10 THEN <<"0">> \o Str(n) ELSE Str(n)

\* f"{year}-{month:02d}-{day:02d}"
date_str(ymd) == Str(ymd[1]) \o <<"-">> \o Pad02(ymd[2]) \o <<"-">> \o Pad02(ymd[3])

\* ---------------------------------------------------------------- rows
\* A table is the set of its rows (date, data, create_time, update_time); the
\* surrogate id plays no part in any statement of the store.
NoRow == [t |-> "norow"]
Row(date, data, ct, ut) ==
    [t |-> "row", date |-> date, data |-> data, create_time |-> ct, update_time |-> ut]

\* cursor.fetchone() of SELECT ... WHERE date = ?: a row of that date, or none.
FetchOne(table, date) ==
    IF \E r \in table : r.date = date
    THEN CHOOSE r \in table : r.date = date
    ELSE NoRow

\* A wrong upsert: a plain INSERT into a table without the unique index on date.
Upsert_Append(table, date, data_str, current_time) ==
    table \cup {Row(date, data_str, current_time, current_time)}

\* A wrong upsert: the insert leaves create_time at the column default 0.
Upsert_NoCreateTime(table, date, data_str, current_time) ==
    IF \E r \in table : r.date = date
    THEN {IF r.date = date
          THEN [r EXCEPT !.data = data_str, !.update_time = current_time]
          ELSE r : r \in table}
    ELSE table \cup {Row(date, data_str, 0, current_time)}

\* A wrong upsert: the write evicts the rows of every other date.
Upsert_Evict(table, date, data_str, current_time) ==
    IF \E r \in table : r.date = date
    THEN {[r EXCEPT !.data = data_str, !.update_time = current_time] :
            r \in {x \in table : x.date = date}}
    ELSE {Row(date, data_str, current_time, current_time)}

\* A wrong upsert: the update has no WHERE clause and stamps every row.
Upsert_Touch(table, date, data_str, current_time) ==
    IF \E r \in table : r.date = date
    THEN {IF r.date = date
          THEN [r EXCEPT !.data = data_str, !.update_time = current_time]
          ELSE [r EXCEPT !.update_time = current_time] : r \in table}
    ELSE table \cup {Row(date, data_str, current_time, current_time)}

\* A wrong upsert: INSERT OR REPLACE, which writes a new row and so resets create_time.
Upsert_Replace(table, date, data_str, current_time) ==
    {r \in table : r.date # date} \cup {Row(date, data_str, current_time, current_time)}

\* INSERT INTO t (date, data, create_time, update_time) VALUES (?, ?, now, now)
\* ON CONFLICT(date) DO UPDATE SET data = excluded.data,
\*                                 update_time = excluded.update_time
Upsert(table, date, data_str, current_time) ==
    IF \E r \in table : r.date = date
    THEN {IF r.date = date
          THEN [r EXCEPT !.data = data_str, !.update_time = current_time]
          ELSE r : r \in table}
    ELSE table \cup {Row(date, data_str, current_time, current_time)}

\* ---------------------------------------------------------------- results
Return(v) == [kind |-> "return", value |-> v]
Raise(msg) == [kind |-> "raise", msg |-> msg]

\* A wrong statement: a plain INSERT, chosen because the existence SELECT found
\* no row; the unique index on date rejects it when the row is there by now.
Execute_Insert(table, date, data_str, current_time) ==
    IF \E r \in table : r.date = date
    THEN Raise(<<"IntegrityError">>)
    ELSE Return(table \cup {Row(date, data_str, current_time, current_time)})

\* cursor.execute of the upsert statement on the table as it is when the
\* statement runs: the table afterwards. The conflict on date is resolved by
\* the statement itself, so a row of the date is no sqlite3.IntegrityError.
Execute(table, date, data_str, current_time) ==
    Return(Upsert(table, date, data_str, current_time))

\* Where a save may raise after its timestamp is read.
FailPoints == {"none", "execute", "commit"}

\* A wrong context manager: the changes of a body that raised stay.
get_connection_NoRollback(committed, uncommitted, raised) == uncommitted

\* get_connection: conn.commit() when the body ends, conn.rollback() when the
\* body or the commit raises. committed: the table before the with-block;
\* uncommitted: the table as the connection has changed it.
get_connection(committed, uncommitted, raised) ==
    IF raised THEN committed ELSE uncommitted

\* A wrong read: it stamps the row it reads.
AfterSelect_Touch(table, date) ==
    {IF r.date = date THEN [r EXCEPT !.update_time = @ + 1] ELSE r : r \in table}

\* The table after the with-block of get_day_calendar / get_hour_calendar: the
\* block holds one SELECT, so the commit that ends it has nothing to write.
AfterSelect(table, date) == table

\* The body of get_day_calendar / get_hour_calendar inside its try block:
\* SELECT data WHERE date = ?, then json.loads(data_str) if data_str else None.
\* fail: the connection or the statement raises.
SelectData(row, fail) ==
    IF fail THEN Raise(<<"sqlite">>)
    ELSE IF row = NoRow THEN Return(PyNone)
    ELSE IF row.data = SqlNull \/ row.data = EmptyText THEN Return(PyNone)
    ELSE IF ~Decodable(row.data) THEN Raise(<<"json">>)
    ELSE Return(loads(row.data))

\* get_day_calendar / get_hour_calendar: except Exception -> log, return None.
db_get(row, fail) ==
    LET r == SelectData(row, fail)
    IN  IF r.kind = "raise" THEN PyNone ELSE r.value

\* ---------------------------------------------------------------- remote client
PyStr(s) == [t |-> "str", s |-> s]
\* A wrong test: the address held is never taken as valid.
NoAddress_Always(ip) == TRUE

\* "not self.current_ip": None and "" are falsy.
NoAddress(ip) == ip.t = "None" \/ Len(ip.s) = 0

\* A transport failure (requests raises, raise_for_status, invalid JSON).
TransportError == [ok |-> FALSE, body |-> PyNone]

\* No discovery request was issued.
NoResp == [ok |-> FALSE, body |-> Dict(<<>>)]

ApiUrls == {<<"http://", "ip1", "/">>}
DiscoveryResponses ==
    {[ok |-> TRUE, body |-> Dict(<< <<"code", "200">>, <<"api", u>> >>)] : u \in ApiUrls}
      \cup {[ok |-> TRUE, body |-> Dict(<< <<"code", "500">>, <<"api", u>> >>)] : u \in ApiUrls}
      \cup {TransportError}
FetchResponses ==
    {[ok |-> TRUE, body |-> Body(c, v)] : c \in {"200", "500"}, v \in Vals}
      \cup {TransportError}

HasKey(v, key) == v.t = "dict" /\ \E i \in 1..Len(v.items) : v.items[i][1] = key

\* api_url.replace("http://", "").replace("https://", "").rstrip("/")
RECURSIVE RStrip(_)
RStrip(s) == IF Len(s) > 0 /\ s[Len(s)] = "/" THEN RStrip(SubSeq(s, 1, Len(s) - 1)) ELSE s
HostOf(url) == RStrip(SelectSeq(url, LAMBDA x : x \notin {"http://", "https://"}))

\* A wrong resolution: the code of the envelope is not looked at.
get_optimal_api_ip_AnyCode(resp) ==
    IF resp.ok /\ HasKey(resp.body, "api")
    THEN Return(PyStr(HostOf(DictGet(resp.body, "api"))))
    ELSE Raise(<<"get_optimal_api_ip">>)

\* get_optimal_api_ip: one discovery request; the address on code 200 with an api field.
get_optimal_api_ip(resp) ==
    IF resp.ok /\ DictGet(resp.body, "code") = "200" /\ HasKey(resp.body, "api")
    THEN Return(PyStr(HostOf(DictGet(resp.body, "api"))))
    ELSE Raise(<<"get_optimal_api_ip">>)

\* A wrong request: the code of the envelope is not looked at.
api_request_AnyCode(resp, who) ==
    IF resp.ok THEN Return(resp.body) ELSE Raise(<<who>>)

\* The request of get_day_calendar / get_hour_calendar after ensure_ip:
\* the body itself on code 200, an exception otherwise.
api_request(resp, who) ==
    IF resp.ok /\ DictGet(resp.body, "code") = "200"
    THEN Return(resp.body)
    ELSE Raise(<<who>>)

\* json.dumps({"day_info": ..., "hour_info": ...}, indent=2)
ResultJson(d, h) ==
    <<"{", "day_info">> \o (IF d.t = "None" THEN <<"null">> ELSE dumps(d))
      \o <<"hour_info">> \o (IF h.t = "None" THEN <<"null">> ELSE dumps(h)) \o <<"}">>

\* A wrong hit test: "if day_info or hour_info".
CacheHit_Any(d, h) == Truthy(d) \/ Truthy(h)

\* "if day_info and hour_info": both dimensions served from the cache.
CacheHit(d, h) == Truthy(d) /\ Truthy(h)

\* ---------------------------------------------------------------- state
VARIABLES
    store,        \* [family -> set of rows]: the tables day_calendar and hour_calendar
    clock,        \* the wall clock read by get_local_timestamp
    db_instance,  \* _db_instance: None or the opened store
    pc,           \* per caller: position in get_calander_info
    args,         \* per caller: [ymd, key, force] of the call
    day_info,     \* per caller: local day_info
    hour_info,    \* per caller: local hour_info
    api,          \* per caller: current_ip of the call's CalendarAPI
    txn,          \* per caller: locals of the save in flight
    ret,          \* per caller: outcome of the last finished call
    cnt,          \* per caller: requests and store operations of the call (history)
    pre,          \* per caller: the date's rows when the call began (history)
    prev,         \* per caller: the call before the current one (history)
    calls,        \* per caller: calls left
    hist,         \* per family: the committed upserts of each date (history)
    dates,        \* per caller: the dates it asks for
    client,       \* current_ip of the CalendarAPI a CalendarAgent keeps (self.api)
    upstream,     \* the URL the discovery endpoint currently names
    last,         \* the last operation on that client and what it issued (history)
    ops,          \* operations made on that client so far
    ask           \* per caller: the answer_question, call_tool or create_llm_client made

\* The state of get_calander_info and the store, and that of the kept client.
mainVars == <<store, clock, db_instance, pc, args, day_info, hour_info, api, txn, ret,
              cnt, pre, prev, calls, hist, dates, ask>>
clientVars == <<client, upstream, last, ops, ask>>
vars == <<store, clock, db_instance, pc, args, day_info, hour_info, api, txn, ret,
          cnt, pre, prev, calls, hist, dates, client, upstream, last, ops, ask>>

NoTxn == [data_str |-> <<>>, current_time |-> 0, old_update_time |-> PyNone]
PyTime(n) == [t |-> "time", v |-> n]
NoArgs == [ymd |-> <<0, 0, 0>>, key |-> <<>>, force |-> FALSE]
NoRet == [kind |-> "none"]
ZeroCnt == [disc |-> 0, day |-> 0, hour |-> 0, put_day |-> 0, put_hour |-> 0,
            net_failed |-> FALSE, store_failed |-> FALSE]
NoPre == [day |-> NoRow, hour |-> NoRow]
NoPrev == [kind |-> "none"]
\* No answer_question and no call_tool was made.
NoAsk == [at |-> "none"]

FirstDate == <<2025, 1, 1>>
FirstKey == date_str(FirstDate)
OtherKey == date_str(<<2025, 12, 1>>)
ValidText == dumps(Body("200", "a"))
\* What the data column of a row may hold before the first call.
InitTexts == {ValidText, Malformed, EmptyObject, SqlNull, EmptyText}
\* The rows of one date before the first call: none, or one written at time 0.
InitRowSets(key, texts) == {{}} \cup {{Row(key, x, 0, 0)} : x \in texts}

InitCommon ==
    /\ clock = 0
    /\ db_instance = PyNone
    /\ pc = [p \in Procs |-> "idle"]
    /\ args = [p \in Procs |-> NoArgs]
    /\ day_info = [p \in Procs |-> PyNone]
    /\ hour_info = [p \in Procs |-> PyNone]
    /\ api = [p \in Procs |-> PyNone]
    /\ txn = [p \in Procs |-> NoTxn]
    /\ ret = [p \in Procs |-> NoRet]
    /\ cnt = [p \in Procs |-> ZeroCnt]
    /\ pre = [p \in Procs |-> NoPre]
    /\ prev = [p \in Procs |-> NoPrev]
    /\ hist = [f \in Families |-> {}]
    /\ ask = [p \in Procs |-> NoAsk]

\* No operation is made on a kept client.
NoLast == [op |-> "none", disc |-> 0, fetch |-> 0, held |-> PyNone, addr |-> PyNone,
           dresp |-> NoResp, resp |-> NoResp, kind |-> "none", value |-> PyNone]
InitNoClient ==
    /\ client = PyNone
    /\ upstream \in ApiUrls
    /\ last = NoLast
    /\ ops = 0

\* One caller, MaxCalls calls in a row for one date; the tables hold a row of
\* another date as well.
Init ==
    /\ InitCommon
    /\ InitNoClient
    /\ \E dr \in InitRowSets(FirstKey, InitTexts), hr \in InitRowSets(FirstKey, InitTexts) :
         /\ dr \in InitRowSets(FirstKey, {ValidText}) \/ hr \in InitRowSets(FirstKey, {ValidText})
         /\ store = [f \in Families |->
                       (IF f = "day" THEN dr ELSE hr) \cup {Row(OtherKey, ValidText, 0, 0)}]
    /\ calls = [p \in Procs |-> IF p = 1 THEN MaxCalls ELSE 0]
    /\ dates = [p \in Procs |-> {FirstDate}]

\* Two callers, one call each, running concurrently.
InitConc ==
    /\ InitCommon
    /\ InitNoClient
    /\ \E dr \in InitRowSets(FirstKey, {ValidText}), hr \in InitRowSets(FirstKey, {ValidText}) :
         store = [f \in Families |-> IF f = "day" THEN dr ELSE hr]
    /\ calls = [p \in Procs |-> 1]
    /\ dates = [p \in Procs |-> IF p = 1 THEN {FirstDate} ELSE CalendarDates]

\* ---------------------------------------------------------------- helpers
\* get_local_timestamp(): datetime.now() at one-second resolution never goes back.
get_local_timestamp(now) == {t \in now..MaxClock : t <= now + 1}

\* A wrong initialization: DROP TABLE, then CREATE TABLE.
init_tables_Recreate(tables) == [f \in Families |-> {}]

\* _init_tables: CREATE TABLE IF NOT EXISTS and CREATE UNIQUE INDEX IF NOT
\* EXISTS for both families; a table that is there is left as it is.
init_tables(tables) ==
    [f \in Families |-> IF f \in DOMAIN tables THEN tables[f] ELSE {}]

\* The default of get_db's and init_db's db_path, and other paths.
DefaultDbPath == <<"data/calendar.db">>
DbPaths ==
    {DefaultDbPath, <<"data/test.db">>, <<"calendar.db">>, <<":memory:">>,
     <<"/tmp/calendar.db">>, <<"">>}

\* A wrong get_db: one instance per path, the last one opened is kept.
get_db_PerPath(inst, db_path, open_fails) ==
    IF inst.t # "None" /\ inst.s = db_path THEN Return(inst)
    ELSE IF open_fails THEN Raise(<<"get_db">>)
    ELSE Return(PyStr(db_path))

\* get_db(db_path): the singleton, SQLiteDB(db_path) on first use only; opening
\* may raise, and then nothing is kept. The instance is named by its db_path.
get_db(inst, db_path, open_fails) ==
    IF inst.t # "None" THEN Return(inst)
    ELSE IF open_fails THEN Raise(<<"get_db">>)
    ELSE Return(PyStr(db_path))

\* A wrong ensure_ip: it resolves on every call.
ensure_ip_Always(ip, dresp) == get_optimal_api_ip(dresp)

\* ensure_ip(): resolve only while no address is held; the address afterwards.
ensure_ip(ip, dresp) == IF NoAddress(ip) THEN get_optimal_api_ip(dresp) ELSE Return(ip)

\* A wrong miss path: the call reads the cache again until another call has
\* filled it.
AfterGets_Poll(d, h) ==
    IF CacheHit(d, h) THEN "return" ELSE "get_day"

\* Where get_calander_info goes after the two reads (lines 99-120).
AfterGets(d, h) ==
    IF CacheHit(d, h) THEN "return"
    ELSE IF ~Truthy(d) THEN "fetch_day"
    ELSE "fetch_hour"

\* Where it goes after the day save: the forced path always fetches the hour
\* record (line 82), the miss path only "if not hour_info" (line 120).
AfterSaveDay(force, h) ==
    IF force THEN "fetch_hour"
    ELSE IF ~Truthy(h) THEN "fetch_hour"
    ELSE "return"

\* The position after a step, and the returned JSON when the call returns.
Goto(p, label, d, h) ==
    IF label = "return"
    THEN /\ pc' = [pc EXCEPT ![p] = "returned"]
         /\ ret' = [ret EXCEPT ![p] = [kind |-> "ok", payload |-> ResultJson(d, h)]]
    ELSE /\ pc' = [pc EXCEPT ![p] = label]
         /\ UNCHANGED ret

\* A wrong handler: a fixed message, whatever failed.
Raised_Generic(p, msg) ==
    /\ pc' = [pc EXCEPT ![p] = "raised"]
    /\ ret' = [ret EXCEPT ![p] = [kind |-> "raise", msg |-> <<"get_calander_info">>]]

\* A wrong handler: the failed step is tried again.
Raised_Retry(p, msg) ==
    /\ pc' = pc
    /\ ret' = ret

\* except Exception as e: raise Exception("获取数据失败: " + str(e))  (lines 134-135)
Raised(p, msg) ==
    /\ pc' = [pc EXCEPT ![p] = "raised"]
    /\ ret' = [ret EXCEPT ![p] = [kind |-> "raise", msg |-> <<"get_calander_info">> \o msg]]

\* What the next call remembers of the call that just ended, when that call was
\* a non-forced retrieval that returned a result.
Summary(p) ==
    IF pc[p] = "idle" THEN NoPrev
    ELSE IF ret[p].kind # "ok" \/ args[p].force THEN NoPrev
    ELSE [kind |-> "ok", key |-> args[p].key, payload |-> ret[p].payload,
          day |-> cnt[p].day, hour |-> cnt[p].hour]

\* The record of the committed upserts of one family after one more commit: per
\* date, the time of the first committed write that found no row (or, for a row
\* older than the history, its create_time), and the text and time of the last commit.
Committed(h, table, date, data_str, current_time) ==
    LET old == {e \in h : e.date = date}
        first == IF old # {} THEN (CHOOSE e \in old : TRUE).first
                 ELSE IF FetchOne(table, date) = NoRow THEN current_time
                 ELSE FetchOne(table, date).create_time
    IN  (h \ old) \cup {[date |-> date, first |-> first,
                          data |-> data_str, time |-> current_time]}

\* ---------------------------------------------------------------- actions
\* The body of get_calander_info, lines 64-73, for given arguments: the key,
\* get_db(), and the choice of path.
Enter(p, ymd, force, open_fails) ==
    /\ LET key == date_str(ymd)
           db == get_db(db_instance, DefaultDbPath, open_fails)
       IN  /\ args' = [args EXCEPT ![p] = [ymd |-> ymd, key |-> key, force |-> force]]
           /\ pre' = [pre EXCEPT ![p] = [day |-> FetchOne(store["day"], key),
                                         hour |-> FetchOne(store["hour"], key)]]
           /\ IF db.kind = "raise"
              THEN /\ Raised(p, db.msg)
                   /\ UNCHANGED db_instance
              ELSE /\ pc' = [pc EXCEPT ![p] = IF force THEN "fetch_day" ELSE "get_day"]
                   /\ ret' = [ret EXCEPT ![p] = NoRet]
                   /\ db_instance' = db.value
           /\ store' = IF db.kind = "return" /\ db_instance = PyNone
                       THEN init_tables(store)
                       ELSE store
    /\ prev' = [prev EXCEPT ![p] = Summary(p)]
    /\ cnt' = [cnt EXCEPT ![p] = ZeroCnt]
    /\ day_info' = [day_info EXCEPT ![p] = PyNone]
    /\ hour_info' = [hour_info EXCEPT ![p] = PyNone]
    /\ api' = [api EXCEPT ![p] = PyNone]
    /\ txn' = [txn EXCEPT ![p] = NoTxn]

\* get_calander_info(year, month, day, force_refresh) called by a caller that
\* has calls left.
get_calander_info(p) ==
    /\ pc[p] \in {"idle", "returned", "raised"}
    /\ calls[p] > 0
    /\ calls' = [calls EXCEPT ![p] = @ - 1]
    /\ \E ymd \in dates[p], force \in BOOLEAN, open_fails \in BOOLEAN :
         Enter(p, ymd, force, open_fails)
    /\ UNCHANGED <<clock, hist, dates, client, upstream, last, ops, ask>>

\* db.get_day_calendar(date_str), line 95.
db_get_day_calendar(p) ==
    /\ pc[p] = "get_day"
    /\ \E fail \in BOOLEAN :
         LET row == FetchOne(store["day"], args[p].key)
         IN  /\ day_info' = [day_info EXCEPT ![p] = db_get(row, fail)]
             /\ cnt' = [cnt EXCEPT ![p].store_failed = @ \/ SelectData(row, fail).kind = "raise"]
    /\ store' = [store EXCEPT !["day"] = AfterSelect(@, args[p].key)]
    /\ pc' = [pc EXCEPT ![p] = "get_hour"]
    /\ UNCHANGED <<clock, db_instance, args, hour_info, api, txn, ret, pre, prev, calls, hist, dates, client, upstream, last, ops, ask>>

\* db.get_hour_calendar(date_str), line 96, and the cache-hit test, lines 99-109.
db_get_hour_calendar(p) ==
    /\ pc[p] = "get_hour"
    /\ \E fail \in BOOLEAN :
         LET row == FetchOne(store["hour"], args[p].key)
             h == db_get(row, fail)
         IN  /\ hour_info' = [hour_info EXCEPT ![p] = h]
             /\ cnt' = [cnt EXCEPT ![p].store_failed = @ \/ SelectData(row, fail).kind = "raise"]
             /\ Goto(p, AfterGets(day_info[p], h), day_info[p], h)
    /\ store' = [store EXCEPT !["hour"] = AfterSelect(@, args[p].key)]
    /\ UNCHANGED <<clock, db_instance, args, day_info, api, txn, pre, prev, calls, hist, dates, client, upstream, last, ops, ask>>

\* api.get_day_calendar(year, month, day): ensure_ip, then the day request.
api_get_day_calendar(p) ==
    /\ pc[p] = "fetch_day"
    /\ \E dresp \in DiscoveryResponses, resp \in FetchResponses :
         LET asked == NoAddress(api[p])
             ip == ensure_ip(api[p], dresp)
             r == api_request(resp, "get_day_calendar")
         IN  IF ip.kind = "raise"
             THEN /\ Raised(p, ip.msg)
                  /\ cnt' = [cnt EXCEPT ![p].disc = @ + 1, ![p].net_failed = TRUE]
                  /\ UNCHANGED <<api, day_info>>
             ELSE /\ api' = [api EXCEPT ![p] = ip.value]
                  /\ IF r.kind = "raise"
                     THEN /\ Raised(p, r.msg)
                          /\ cnt' = [cnt EXCEPT ![p].disc = @ + (IF asked THEN 1 ELSE 0),
                                                ![p].day = @ + 1, ![p].net_failed = TRUE]
                          /\ UNCHANGED day_info
                     ELSE /\ Goto(p, "save_day_select", r.value, hour_info[p])
                          /\ cnt' = [cnt EXCEPT ![p].disc = @ + (IF asked THEN 1 ELSE 0),
                                                ![p].day = @ + 1]
                          /\ day_info' = [day_info EXCEPT ![p] = r.value]
    /\ UNCHANGED <<store, clock, db_instance, args, hour_info, txn, pre, prev, calls, hist, dates, client, upstream, last, ops, ask>>

\* api.get_hour_calendar(year, month, day): ensure_ip, then the hour request.
api_get_hour_calendar(p) ==
    /\ pc[p] = "fetch_hour"
    /\ \E dresp \in DiscoveryResponses, resp \in FetchResponses :
         LET asked == NoAddress(api[p])
             ip == ensure_ip(api[p], dresp)
             r == api_request(resp, "get_hour_calendar")
         IN  IF ip.kind = "raise"
             THEN /\ Raised(p, ip.msg)
                  /\ cnt' = [cnt EXCEPT ![p].disc = @ + 1, ![p].net_failed = TRUE]
                  /\ UNCHANGED <<api, hour_info>>
             ELSE /\ api' = [api EXCEPT ![p] = ip.value]
                  /\ IF r.kind = "raise"
                     THEN /\ Raised(p, r.msg)
                          /\ cnt' = [cnt EXCEPT ![p].disc = @ + (IF asked THEN 1 ELSE 0),
                                                ![p].hour = @ + 1, ![p].net_failed = TRUE]
                          /\ UNCHANGED hour_info
                     ELSE /\ Goto(p, "save_hour_select", day_info[p], r.value)
                          /\ cnt' = [cnt EXCEPT ![p].disc = @ + (IF asked THEN 1 ELSE 0),
                                                ![p].hour = @ + 1]
                          /\ hour_info' = [hour_info EXCEPT ![p] = r.value]
    /\ UNCHANGED <<store, clock, db_instance, args, day_info, txn, pre, prev, calls, hist, dates, client, upstream, last, ops, ask>>

\* save_*_calendar up to the upsert: the existence SELECT, json.dumps and the
\* timestamp. An exception ends the save: it is logged and False is returned,
\* which get_calander_info does not look at.
SaveSelect(p, f, info, after) ==
    \E fail \in BOOLEAN, now \in get_local_timestamp(clock) :
        LET row == FetchOne(store[f], args[p].key)
        IN  IF fail
            THEN /\ Goto(p, after, day_info[p], hour_info[p])
                 /\ cnt' = [cnt EXCEPT ![p].store_failed = TRUE,
                                       ![p].put_day = @ + (IF f = "day" THEN 1 ELSE 0),
                                       ![p].put_hour = @ + (IF f = "hour" THEN 1 ELSE 0)]
                 /\ UNCHANGED <<txn, clock>>
            ELSE /\ Goto(p, IF f = "day" THEN "save_day_upsert" ELSE "save_hour_upsert",
                         day_info[p], hour_info[p])
                 /\ cnt' = [cnt EXCEPT ![p].put_day = @ + (IF f = "day" THEN 1 ELSE 0),
                                       ![p].put_hour = @ + (IF f = "hour" THEN 1 ELSE 0)]
                 /\ txn' = [txn EXCEPT ![p] =
                              [data_str |-> dumps(info), current_time |-> now,
                               old_update_time |-> IF row = NoRow THEN PyNone
                                                   ELSE PyTime(row.update_time)]]
                 /\ clock' = now

\* The upsert statement and the commit of get_connection. The statement may
\* raise (fail = "execute"), and so may the commit after it (fail = "commit");
\* either way get_connection rolls back and the save returns False.
SaveUpsert(p, f, after) ==
    \E fail \in FailPoints :
        LET r == IF fail = "execute" THEN Raise(<<"sqlite">>)
                 ELSE Execute(store[f], args[p].key, txn[p].data_str, txn[p].current_time)
            raised == r.kind = "raise" \/ fail = "commit"
            uncommitted == IF r.kind = "raise" THEN store[f] ELSE r.value
        IN  /\ store' = [store EXCEPT ![f] = get_connection(@, uncommitted, raised)]
            /\ hist' = IF raised THEN hist
                       ELSE [hist EXCEPT ![f] =
                               Committed(@, store[f], args[p].key, txn[p].data_str,
                                         txn[p].current_time)]
            /\ cnt' = [cnt EXCEPT ![p].store_failed = @ \/ raised]
            /\ txn' = [txn EXCEPT ![p] = NoTxn]
            /\ Goto(p, after, day_info[p], hour_info[p])

\* db.save_day_calendar(date_str, day_info), lines 201-211.
save_day_select(p) ==
    /\ pc[p] = "save_day_select"
    /\ SaveSelect(p, "day", day_info[p], AfterSaveDay(args[p].force, hour_info[p]))
    /\ UNCHANGED <<store, db_instance, args, day_info, hour_info, api, pre, prev, calls, hist, dates, client, upstream, last, ops, ask>>

\* db.save_day_calendar(date_str, day_info), lines 213-230.
save_day_upsert(p) ==
    /\ pc[p] = "save_day_upsert"
    /\ SaveUpsert(p, "day", AfterSaveDay(args[p].force, hour_info[p]))
    /\ UNCHANGED <<clock, db_instance, args, day_info, hour_info, api, pre, prev, calls, dates, client, upstream, last, ops, ask>>

\* db.save_hour_calendar(date_str, hour_info), lines 269-279.
save_hour_select(p) ==
    /\ pc[p] = "save_hour_select"
    /\ SaveSelect(p, "hour", hour_info[p], "return")
    /\ UNCHANGED <<store, db_instance, args, day_info, hour_info, api, pre, prev, calls, hist, dates, client, upstream, last, ops, ask>>

\* db.save_hour_calendar(date_str, hour_info), lines 281-298.
save_hour_upsert(p) ==
    /\ pc[p] = "save_hour_upsert"
    /\ SaveUpsert(p, "hour", "return")
    /\ UNCHANGED <<clock, db_instance, args, day_info, hour_info, api, pre, prev, calls, dates, client, upstream, last, ops, ask>>

Next ==
    \E p \in Procs :
        \/ get_calander_info(p)
        \/ db_get_day_calendar(p)
        \/ db_get_hour_calendar(p)
        \/ api_get_day_calendar(p)
        \/ api_get_hour_calendar(p)
        \/ save_day_select(p)
        \/ save_day_upsert(p)
        \/ save_hour_select(p)
        \/ save_hour_upsert(p)

\* One caller calling again and again.
Spec == Init /\ [][Next]_vars
\* Two concurrent callers.
SpecConc == InitConc /\ [][Next]_vars

\* The steps of a call that has begun. The interpreter runs the next statement
\* of a call in progress, and every request and every store operation comes
\* back: requests carry timeout=10, sqlite3.connect waits at most its default
\* 5 s for a lock.
Run(p) ==
    \/ db_get_day_calendar(p)
    \/ db_get_hour_calendar(p)
    \/ api_get_day_calendar(p)
    \/ api_get_hour_calendar(p)
    \/ save_day_select(p)
    \/ save_day_upsert(p)
    \/ save_hour_select(p)
    \/ save_hour_upsert(p)

\* Two callers, one call each for the same date, on an empty cache.
InitLive ==
    /\ InitCommon
    /\ InitNoClient
    /\ store = [f \in Families |-> {}]
    /\ calls = [p \in Procs |-> 1]
    /\ dates = [p \in Procs |-> {FirstDate}]

\* Two concurrent callers whose calls in progress keep running.
SpecLive == InitLive /\ [][Next]_vars /\ \A p \in Procs : WF_vars(Run(p))

\* ---------------------------------------------------------------- kept client
\* CalendarAgent keeps one CalendarAPI (agent.py:23) and calls its fetch
\* operations question after question (agent.py:179-184); get_optimal_api_ip is
\* public and may be called on it directly.
ServiceUrls == {<<"http://", "ip1", "/">>, <<"https://", "ip2">>}

\* What the discovery endpoint may answer while the service is at url: the
\* envelope naming url, a non-success envelope, code 200 without the api field,
\* or a transport failure.
DiscoveryResponsesAt(url) ==
    {[ok |-> TRUE, body |-> Dict(<< <<"code", c>>, <<"api", url>> >>)] : c \in {"200", "500"}}
      \cup {[ok |-> TRUE, body |-> Dict(<< <<"code", "200">> >>)], TransportError}

\* What a fetch request sent to address ip may answer while the service is at
\* url: a request to an address the service has left is not answered.
FetchResponsesAt(ip, url) ==
    IF ip = PyStr(HostOf(url)) THEN FetchResponses ELSE {TransportError}

\* One client, never used yet; the main program does not run.
InitClient ==
    /\ InitCommon
    /\ store = [f \in Families |-> {}]
    /\ calls = [p \in Procs |-> 0]
    /\ dates = [p \in Procs |-> {FirstDate}]
    /\ client = PyNone
    /\ upstream \in ServiceUrls
    /\ last = NoLast
    /\ ops = 0

\* A direct call of get_optimal_api_ip (calendar_api.py:21-43): the discovery
\* request is issued whatever current_ip holds; current_ip is assigned on
\* success only.
client_get_optimal_api_ip ==
    /\ ops < MaxOps
    /\ \E dresp \in DiscoveryResponsesAt(upstream) :
         LET r == get_optimal_api_ip(dresp)
         IN  /\ client' = IF r.kind = "return" THEN r.value ELSE client
             /\ last' = [op |-> "get_optimal_api_ip", disc |-> 1, fetch |-> 0,
                         held |-> client, addr |-> PyNone, dresp |-> dresp,
                         resp |-> NoResp, kind |-> r.kind,
                         value |-> IF r.kind = "return" THEN r.value ELSE PyNone]
    /\ ops' = ops + 1
    /\ UNCHANGED <<upstream, mainVars>>

\* get_day_calendar / get_hour_calendar on the kept client: ensure_ip, then one
\* request to http://{current_ip}/...; ensure_ip is outside the try block, so a
\* failed resolution leaves before the request.
ClientFetch(who) ==
    /\ ops < MaxOps
    /\ \E dresp \in DiscoveryResponsesAt(upstream) :
         LET asked == NoAddress(client)
             ip == ensure_ip(client, dresp)
         IN  IF ip.kind = "raise"
             THEN /\ client' = client
                  /\ last' = [op |-> who, disc |-> 1, fetch |-> 0, held |-> client,
                              addr |-> PyNone, dresp |-> dresp, resp |-> NoResp,
                              kind |-> "raise", value |-> PyNone]
             ELSE \E resp \in FetchResponsesAt(ip.value, upstream) :
                    LET r == api_request(resp, who)
                    IN  /\ client' = ip.value
                        /\ last' = [op |-> who, disc |-> IF asked THEN 1 ELSE 0,
                                    fetch |-> 1, held |-> client, addr |-> ip.value,
                                    dresp |-> IF asked THEN dresp ELSE NoResp,
                                    resp |-> resp, kind |-> r.kind,
                                    value |-> IF r.kind = "return" THEN r.value ELSE PyNone]
    /\ ops' = ops + 1
    /\ UNCHANGED <<upstream, mainVars>>

client_get_day_calendar == ClientFetch("get_day_calendar")
client_get_hour_calendar == ClientFetch("get_hour_calendar")

\* The service moves: the discovery endpoint names another URL from now on.
rotate ==
    /\ \E u \in ServiceUrls \ {upstream} : upstream' = u
    /\ UNCHANGED <<client, last, ops, mainVars>>

NextClient ==
    \/ client_get_optimal_api_ip
    \/ client_get_day_calendar
    \/ client_get_hour_calendar
    \/ rotate

\* One long-lived client while the service moves.
SpecClient == InitClient /\ [][NextClient]_vars

\* ---------------------------------------------------------------- cache key
\* Valid dates with a four-digit year: months and days with one and two digits.
KeyDates ==
    {<<y, m, d>> : y \in {1000, 2025, 9999}, m \in {1, 10, 11, 12},
                   d \in {1, 2, 10, 12, 28}}

\* Two callers that only build cache keys.
InitKey ==
    /\ InitCommon
    /\ InitNoClient
    /\ store = [f \in Families |-> {}]
    /\ calls = [p \in Procs |-> 0]
    /\ dates = [p \in Procs |-> KeyDates]

\* date_str = f"{year}-{month:02d}-{day:02d}"  (calander.py:66)
build_date_str(p) ==
    /\ \E ymd \in dates[p] :
         args' = [args EXCEPT ![p] = [ymd |-> ymd, key |-> date_str(ymd), force |-> FALSE]]
    /\ UNCHANGED <<store, clock, db_instance, pc, day_info, hour_info, api, txn, ret,
                   cnt, pre, prev, calls, hist, dates, client, upstream, last, ops, ask>>

NextKey == \E p \in Procs : build_date_str(p)

\* Keys built for any two dates.
SpecKey == InitKey /\ [][NextKey]_vars

\* ---------------------------------------------------------------- singleton
\* One process whose call sites only obtain the store: caller 1 is the
\* retrieval's get_db() (calander.py:68), caller 2 is init_db(db_path).
InitDb ==
    /\ InitCommon
    /\ InitNoClient
    /\ store = [f \in Families |-> {}]
    /\ calls = [p \in Procs |-> 0]
    /\ dates = [p \in Procs |-> {FirstDate}]

\* What a call site got from get_db, and the db_path it gave.
Obtained(db, db_path) ==
    [kind |-> db.kind,
     value |-> IF db.kind = "return" THEN db.value ELSE PyNone,
     db_path |-> PyStr(db_path)]

\* One call of get_db by call site p with the paths it may give.
ObtainDb(p, paths) ==
    /\ \E db_path \in paths, open_fails \in BOOLEAN :
         LET db == get_db(db_instance, db_path, open_fails)
         IN  /\ db_instance' = IF db.kind = "return" THEN db.value ELSE db_instance
             /\ ret' = [ret EXCEPT ![p] = Obtained(db, db_path)]
    /\ UNCHANGED <<store, clock, pc, args, day_info, hour_info, api, txn,
                   cnt, pre, prev, calls, hist, dates, client, upstream, last, ops, ask>>

\* db = get_db()  (calander.py:68)
retrieval_get_db == ObtainDb(1, {DefaultDbPath})

\* init_db(db_path): return get_db(db_path)  (sqlite.py:321-331)
init_db == ObtainDb(2, DbPaths)

NextDb == retrieval_get_db \/ init_db

\* The singleton under calls with any db_path.
SpecDb == InitDb /\ [][NextDb]_vars

\* ---------------------------------------------------------------- claims
Ended(p) == pc[p] \in {"returned", "raised"}
\* What a read that does not raise returns for a row.
Stored(row) == db_get(row, FALSE)
\* The row holds a non-empty record.
HoldsRecord(row) == Truthy(Stored(row))
\* The row holds text that json.loads rejects.
Undecodable(row) ==
    /\ row # NoRow
    /\ row.data # SqlNull
    /\ row.data # EmptyText
    /\ ~Decodable(row.data)
DayRow(p) == FetchOne(store["day"], args[p].key)
HourRow(p) == FetchOne(store["hour"], args[p].key)

\* C1: two non-forced retrievals of one date in a row that both return a result
\* issue at most one day fetch and one hour fetch together, the second issues no
\* request at all, and both return the same payload.
C1_SecondCallIsCacheHit ==
    \A p \in Procs :
        (pc[p] = "returned" /\ ~args[p].force /\ prev[p].kind = "ok"
           /\ prev[p].key = args[p].key)
        => /\ prev[p].day + cnt[p].day <= 1
           /\ prev[p].hour + cnt[p].hour <= 1
           /\ cnt[p].disc = 0 /\ cnt[p].day = 0 /\ cnt[p].hour = 0
           /\ ret[p].payload = prev[p].payload

\* C2: a forced retrieval that returns a result has issued exactly one day fetch
\* and one hour fetch, and a read of either family right after it yields the
\* record that call fetched.
C2_ForcedRefreshIsStored ==
    \A p \in Procs :
        (pc[p] = "returned" /\ args[p].force)
        => /\ cnt[p].day = 1
           /\ cnt[p].hour = 1
           /\ Stored(DayRow(p)) = day_info[p]
           /\ Stored(HourRow(p)) = hour_info[p]

\* C3: a read of a date whose stored text cannot be decoded reports an outcome
\* different from the outcome of a read of a date that has no row.
C3_DecodeFailureIsNotAbsence ==
    \A p \in Procs :
        /\ (pc[p] = "get_hour" /\ Undecodable(DayRow(p)))
             => day_info[p] # Stored(NoRow)
        /\ (pc[p] = "fetch_day" /\ ~args[p].force /\ Undecodable(HourRow(p)))
             => hour_info[p] # Stored(NoRow)

\* C4: a retrieval in which a store read or a store write failed does not return
\* a pair: it ends with the wrapped error.
C4_StoreFailureRaises ==
    \A p \in Procs : cnt[p].store_failed => pc[p] # "returned"

\* C5: a call ends either with a result holding a day record and an hour record,
\* or with an error; never with one dimension only, and a failed discovery or
\* fetch request always ends it with the error.
C5_PairOrError ==
    \A p \in Procs :
        /\ pc[p] = "returned"
             => /\ ret[p].kind = "ok"
                /\ Truthy(day_info[p])
                /\ Truthy(hour_info[p])
                /\ ret[p].payload = ResultJson(day_info[p], hour_info[p])
        /\ pc[p] = "raised" => ret[p].kind = "raise"
        /\ cnt[p].net_failed => pc[p] = "raised"

\* A miss path that fetched the day record and returned the pair.
C5_Witness ==
    \E p \in Procs : pc[p] = "returned" /\ ~args[p].force /\ cnt[p].day = 1 /\ cnt[p].hour = 0

\* C6: over a sequence of puts on one family, the row of a date keeps the
\* create_time of its first insert, a put that commits sets update_time to the
\* time that put read, and update_time never decreases.
C6_CreateKeptUpdateAdvances ==
    [][\A p \in Procs, f \in Families :
          (\/ (f = "day" /\ pc[p] = "save_day_upsert")
           \/ (f = "hour" /\ pc[p] = "save_hour_upsert"))
          /\ pc'[p] # pc[p] /\ store'[f] # store[f]
          => LET old == FetchOne(store[f], args[p].key)
                 new == FetchOne(store'[f], args[p].key)
             IN  /\ new # NoRow
                 /\ new.update_time = txn[p].current_time
                 /\ old = NoRow => new.create_time = txn[p].current_time
                 /\ old # NoRow => /\ new.create_time = old.create_time
                                   /\ new.update_time >= old.update_time]_vars

\* A row written a second time, later than its insert.
C6_Witness ==
    \E f \in Families : \E r \in store[f], e \in hist[f] :
        r.date = e.date /\ e.first = r.create_time /\ r.update_time > r.create_time

\* C7: with only the hour row present, a non-forced retrieval issues no hour
\* fetch, writes the day family only, returns the stored hour record and leaves
\* the hour row as it was; symmetrically with only the day row present.
C7_PresentDimensionReused ==
    \A p \in Procs :
        (Ended(p) /\ ~args[p].force)
        => /\ (pre[p].day = NoRow /\ HoldsRecord(pre[p].hour))
                => /\ cnt[p].hour = 0 /\ cnt[p].put_hour = 0
                   /\ HourRow(p) = pre[p].hour
                   /\ pc[p] = "returned"
                        => /\ cnt[p].day = 1 /\ cnt[p].put_day = 1
                           /\ ret[p].payload = ResultJson(day_info[p], Stored(pre[p].hour))
           /\ (pre[p].hour = NoRow /\ HoldsRecord(pre[p].day))
                => /\ cnt[p].day = 0 /\ cnt[p].put_day = 0
                   /\ DayRow(p) = pre[p].day
                   /\ pc[p] = "returned"
                        => /\ cnt[p].hour = 1 /\ cnt[p].put_hour = 1
                           /\ ret[p].payload = ResultJson(Stored(pre[p].day), hour_info[p])

\* C8: a forced retrieval whose day fetch fails writes no row and issues no hour
\* fetch; one whose hour fetch fails leaves the hour row as it was while the day
\* row holds the day record it fetched.
C8_ForcedFailureOrder ==
    \A p \in Procs :
        (pc[p] = "raised" /\ args[p].force)
        => /\ ret[p].msg = <<"get_calander_info", "get_day_calendar">>
                => /\ DayRow(p) = pre[p].day
                   /\ HourRow(p) = pre[p].hour
                   /\ cnt[p].hour = 0 /\ cnt[p].put_day = 0 /\ cnt[p].put_hour = 0
           /\ ret[p].msg = <<"get_calander_info", "get_hour_calendar">>
                => /\ HourRow(p) = pre[p].hour
                   /\ cnt[p].day = 1 /\ cnt[p].put_day = 1 /\ cnt[p].put_hour = 0
                   /\ DayRow(p) # NoRow
                   /\ Stored(DayRow(p)) = day_info[p]

\* C9: a non-forced retrieval of a date whose day row and hour row both hold a
\* record issues no discovery and no fetch request, and what it returns is those
\* two records.
C9_HitIssuesNoRequest ==
    \A p \in Procs :
        (Ended(p) /\ ~args[p].force /\ HoldsRecord(pre[p].day) /\ HoldsRecord(pre[p].hour))
        => /\ cnt[p].disc = 0 /\ cnt[p].day = 0 /\ cnt[p].hour = 0
           /\ pc[p] = "returned"
                => ret[p].payload = ResultJson(Stored(pre[p].day), Stored(pre[p].hour))

\* C10: when two concurrent non-forced retrievals of one date that both began on
\* an empty cache have both returned, each returned a complete pair and each
\* family holds exactly one row of that date, with the create_time of the first
\* committed insert and the data and update_time of the last committed upsert.
C10_ConcurrentMissesConverge ==
    (\A p \in Procs :
        /\ pc[p] = "returned" /\ ~args[p].force /\ args[p].key = FirstKey
        /\ pre[p] = NoPre)
    => /\ \A p \in Procs : Truthy(day_info[p]) /\ Truthy(hour_info[p])
       /\ \A f \in Families :
            /\ Cardinality({r \in store[f] : r.date = FirstKey}) = 1
            /\ \E r \in store[f], e \in hist[f] :
                 /\ r.date = FirstKey /\ e.date = FirstKey
                 /\ r.create_time = e.first
                 /\ r.data = e.data
                 /\ r.update_time = e.time

\* The position of caller p right before the upsert statement of family f.
AtUpsert(p, f) ==
    \/ f = "day" /\ pc[p] = "save_day_upsert"
    \/ f = "hour" /\ pc[p] = "save_hour_upsert"
\* The rows of the date of p's call in family f.
RowsOf(table, p) == {r \in table : r.date = args[p].key}
\* p's existence check found no row, and another writer's row is there by now.
InsertedMeanwhile(p, f) ==
    /\ AtUpsert(p, f)
    /\ txn[p].old_update_time = PyNone
    /\ RowsOf(store[f], p) # {}

\* C11: when another writer has inserted the row of the date between a put's
\* existence check and its write, the put's statement does not raise on the
\* unique key, and a put that then changes the table leaves exactly the other
\* writer's row with its create_time, carrying the put's data and time.
C11_UpsertDecidesAtWrite ==
    /\ [](\A p \in Procs, f \in Families :
            InsertedMeanwhile(p, f)
            => Execute(store[f], args[p].key, txn[p].data_str,
                       txn[p].current_time).kind = "return")
    /\ [][\A p \in Procs, f \in Families :
            (InsertedMeanwhile(p, f) /\ pc'[p] # pc[p] /\ store'[f] # store[f])
            => \E old \in RowsOf(store[f], p) :
                 RowsOf(store'[f], p) =
                   {[old EXCEPT !.data = txn[p].data_str,
                                !.update_time = txn[p].current_time]}]_vars

\* A put about to write, later than the insert of the other writer that its
\* existence check did not see.
C11_Witness ==
    \E p \in Procs, f \in Families :
        /\ InsertedMeanwhile(p, f)
        /\ \E r \in RowsOf(store[f], p), e \in hist[f] :
             /\ e.date = r.date /\ e.first = r.create_time
             /\ r.create_time < txn[p].current_time

\* C12: in every reachable state, also while and after concurrent puts of one
\* date, no table holds two rows of the same date.
C12_OneRowPerDate ==
    \A f \in Families : \A r1, r2 \in store[f] : r1.date = r2.date => r1 = r2

\* Both callers have put the day record of the same date, and no store
\* operation of either call failed.
C12_Witness ==
    /\ \A p \in Procs : pc[p] = "returned" /\ cnt[p].put_day = 1 /\ ~cnt[p].store_failed
    /\ args[1].key = args[2].key
    /\ RowsOf(store["day"], 1) # {}

\* C13: a step in which a store operation of a call raises changes no row of
\* either table, and a put that ends without a commit leaves the tables as they
\* were, the row of its date as its existence check found it.
C13_FailedPutRolledBack ==
    [][\A p \in Procs :
          /\ (cnt'[p].store_failed /\ ~cnt[p].store_failed) => store' = store
          /\ \A f \in Families :
                (AtUpsert(p, f) /\ pc'[p] # pc[p] /\ hist'[f] = hist[f])
                => /\ store' = store
                   /\ LET row == FetchOne(store'[f], args[p].key)
                      IN  txn[p].old_update_time =
                            (IF row = NoRow THEN PyNone ELSE PyTime(row.update_time))]_vars

\* A forced call whose put of the day record failed: the day row is the one from
\* before the call and does not hold the record the call fetched.
C13_Witness ==
    \E p \in Procs :
        /\ Ended(p) /\ args[p].force
        /\ cnt[p].put_day = 1 /\ cnt[p].put_hour = 0 /\ cnt[p].store_failed
        /\ pre[p].day # NoRow
        /\ DayRow(p) = pre[p].day
        /\ Stored(DayRow(p)) # day_info[p]

\* C14: a put that commits for a date without a row creates the row with
\* create_time = update_time; and when a non-forced retrieval that began with
\* no row of the date in either family has returned, every row of that date has
\* create_time = update_time, and both rows are there unless a store operation
\* of the call failed.
C14_FirstPutStampsBoth ==
    /\ [][\A p \in Procs, f \in Families :
            (AtUpsert(p, f) /\ pc'[p] # pc[p] /\ RowsOf(store[f], p) = {}
               /\ store'[f] # store[f])
            => /\ RowsOf(store'[f], p) # {}
               /\ \A r \in RowsOf(store'[f], p) :
                    /\ r.create_time = r.update_time
                    /\ r.create_time = txn[p].current_time]_vars
    /\ [](\A p \in Procs :
            (pc[p] = "returned" /\ ~args[p].force /\ pre[p] = NoPre)
            => \A f \in Families :
                 /\ \A r \in RowsOf(store[f], p) : r.create_time = r.update_time
                 /\ ~cnt[p].store_failed => RowsOf(store[f], p) # {})

\* A non-forced retrieval on an empty cache has returned and both rows are there,
\* the hour row written later than time 0.
C14_Witness ==
    \E p \in Procs :
        /\ pc[p] = "returned" /\ ~args[p].force /\ pre[p] = NoPre
        /\ cnt[p].put_day = 1 /\ cnt[p].put_hour = 1
        /\ DayRow(p) # NoRow /\ HourRow(p) # NoRow
        /\ HourRow(p).create_time > 0

\* The dates that have a row in a table.
DatesOf(table) == {r.date : r \in table}

\* C15: no step of a retrieval, a get or a put removes a date from the set of
\* dates that have a row in a family.
C15_NoRowDeleted ==
    [][\A f \in Families : DatesOf(store[f]) \subseteq DatesOf(store'[f])]_vars

\* A put has committed a row for a date that had none, next to the row of
\* another date.
C15_Witness ==
    \E f \in Families :
        /\ \E e \in hist[f] : e.date = FirstKey
        /\ {FirstKey, OtherKey} \subseteq DatesOf(store[f])
        /\ \E p \in Procs : Ended(p) /\ pre[p][f] = NoRow

\* C16: a call of get_optimal_api_ip on a client that already holds a resolved
\* address issues no discovery request and returns the address it holds.
C16_ResolveIsMemoized ==
    (last.op = "get_optimal_api_ip" /\ ~NoAddress(last.held))
    => /\ last.disc = 0
       /\ last.kind = "return"
       /\ last.value = last.held
       /\ client = last.held

\* C17: within a call a fetch issues a discovery request exactly when the
\* call's client holds no address, so a call that issued both fetches issued
\* exactly one discovery request; and every call that issued a fetch issued a
\* discovery request of its own, whatever earlier calls resolved.
C17_OneDiscoveryPerFetchingCall ==
    /\ [][\A p \in Procs :
            (pc[p] \in {"fetch_day", "fetch_hour"} /\ pc'[p] # pc[p])
            => cnt'[p].disc = cnt[p].disc + (IF NoAddress(api[p]) THEN 1 ELSE 0)]_vars
    /\ [](\A p \in Procs :
            /\ (cnt[p].day = 1 /\ cnt[p].hour = 1) => cnt[p].disc = 1
            /\ cnt[p].day + cnt[p].hour >= 1 => cnt[p].disc = 1
            /\ pc[p] \in {"get_day", "get_hour"} => (NoAddress(api[p]) /\ cnt[p].disc = 0))

\* A forced call that issued both fetches, after a call of the same caller that
\* had fetched and so resolved the address on its own client.
C17_Witness ==
    \E p \in Procs :
        /\ pc[p] = "returned" /\ args[p].force
        /\ prev[p].kind = "ok" /\ prev[p].day = 1
        /\ cnt[p].day = 1 /\ cnt[p].hour = 1 /\ cnt[p].disc = 1

\* The discovery request of the last operation failed in transport or was
\* answered with a non-success envelope.
DiscoveryFailed ==
    /\ last.disc = 1
    /\ ~last.dresp.ok \/ DictGet(last.dresp.body, "code") # "200"

\* C18: an operation whose discovery request failed in transport or got a
\* non-success envelope ends with an error, leaves the client's address as it
\* was before the operation, and has issued no day or hour request.
C18_FailedDiscoveryStopsFetch ==
    DiscoveryFailed
    => /\ last.kind = "raise"
       /\ client = last.held
       /\ last.fetch = 0
       /\ last.addr = PyNone

\* An hour fetch on a client without an address got a non-success envelope
\* from discovery, after an earlier operation on the same client.
C18_Witness ==
    /\ ops >= 2
    /\ last.op = "get_hour_calendar"
    /\ DiscoveryFailed /\ last.dresp.ok
    /\ client = PyNone

\* The kept client holds a resolved address.
Holds(ip) == ip.t = "str" /\ Len(ip.s) > 0
\* The step is a fetch operation on the kept client.
FetchStep == ops' = ops + 1 /\ last'.op \in {"get_day_calendar", "get_hour_calendar"}

\* C19: a fetch on a client that holds a resolved address issues no discovery
\* request, sends its request to that address and leaves the address in place
\* whether the request fails or not; while the service is at another address
\* every such fetch fails, and a direct resolution that succeeds replaces the
\* address by the one the service is at.
C19_AddressKeptAcrossFailures ==
    [][/\ (FetchStep /\ Holds(client))
          => /\ client' = client
             /\ last'.disc = 0
             /\ last'.fetch = 1
             /\ last'.addr = client
             /\ client # PyStr(HostOf(upstream)) => last'.kind = "raise"
       /\ (ops' = ops + 1 /\ last'.op = "get_optimal_api_ip" /\ last'.kind = "return")
          => client' = PyStr(HostOf(upstream))]_vars

\* A fetch, the third operation on the client or later, that failed on the
\* address the client has held since before the service moved.
C19_Witness ==
    /\ ops >= 3
    /\ last.op \in {"get_day_calendar", "get_hour_calendar"}
    /\ last.kind = "raise" /\ last.disc = 0 /\ last.fetch = 1
    /\ Holds(client) /\ last.held = client /\ last.addr = client
    /\ client # PyStr(HostOf(upstream))

\* C20: at every point of a call, also after a request or a store operation of
\* the call failed, the call has issued at most one discovery request, one day
\* fetch and one hour fetch, and has made at most one put per family.
C20_NothingRetried ==
    \A p \in Procs :
        /\ cnt[p].disc <= 1
        /\ cnt[p].day <= 1
        /\ cnt[p].hour <= 1
        /\ cnt[p].put_day <= 1
        /\ cnt[p].put_hour <= 1

\* A call that ended with the error of its hour fetch after its put of the day
\* record had failed.
C20_Witness ==
    \E p \in Procs :
        /\ pc[p] = "raised" /\ cnt[p].net_failed /\ cnt[p].store_failed
        /\ cnt[p].disc = 1 /\ cnt[p].day = 1 /\ cnt[p].hour = 1
        /\ cnt[p].put_day = 1 /\ cnt[p].put_hour = 0

\* C21: a call that ended because its day request failed carries the error of
\* get_day_calendar inside the error of get_calander_info, one that ended
\* because its hour request failed carries the error of get_hour_calendar, and
\* the two differ.
C21_ErrorNamesDimension ==
    \A p \in Procs :
        (pc[p] = "raised" /\ cnt[p].net_failed)
        => /\ ret[p].kind = "raise"
           /\ Head(ret[p].msg) = "get_calander_info"
           /\ (cnt[p].day = 1 /\ cnt[p].hour = 0)
                => Tail(ret[p].msg) = <<"get_day_calendar">>
           /\ cnt[p].hour = 1 => Tail(ret[p].msg) = <<"get_hour_calendar">>
           /\ (cnt[p].day = 0 /\ cnt[p].hour = 0)
                => Tail(ret[p].msg) = <<"get_optimal_api_ip">>

\* A forced call whose hour request failed after its day request succeeded.
C21_Witness ==
    \E p \in Procs :
        /\ pc[p] = "raised" /\ args[p].force /\ cnt[p].net_failed
        /\ cnt[p].day = 1 /\ cnt[p].hour = 1
        /\ Truthy(day_info[p])

\* C22: a fetch that issued its request returns a record exactly when the
\* request was answered with an envelope of code 200, the record is then the
\* body of the answer, and otherwise the fetch ends with an error and no record.
C22_RecordIffCode200 ==
    last.fetch = 1
    => /\ last.kind = "return"
            <=> (last.resp.ok /\ DictGet(last.resp.body, "code") = "200")
       /\ last.kind = "return" => last.value = last.resp.body
       /\ last.kind # "return" => (last.kind = "raise" /\ last.value = PyNone)

\* An hour fetch answered with an envelope of code 500, after an earlier
\* operation on the same client.
C22_Witness ==
    /\ ops >= 2
    /\ last.op = "get_hour_calendar" /\ last.fetch = 1
    /\ last.resp.ok /\ DictGet(last.resp.body, "code") = "500"
    /\ last.kind = "raise"

\* C23: when a non-forced retrieval that began with no row of the date has
\* ended at its failed hour fetch, the day row holds the day record it fetched
\* and there is no hour row; and a non-forced retrieval that begins in such a
\* state, the day row holding a record and no hour row, issues no day fetch,
\* and exactly one hour fetch when it returns a result.
C23_DayPutBeforeHourFetch ==
    \A p \in Procs :
        /\ (pc[p] = "raised" /\ ~args[p].force /\ pre[p] = NoPre
               /\ cnt[p].day = 1 /\ cnt[p].hour = 1)
             => /\ cnt[p].put_day = 1 /\ cnt[p].put_hour = 0
                /\ DayRow(p) # NoRow
                /\ Stored(DayRow(p)) = day_info[p]
                /\ HourRow(p) = NoRow
        /\ (Ended(p) /\ ~args[p].force /\ HoldsRecord(pre[p].day) /\ pre[p].hour = NoRow)
             => /\ cnt[p].day = 0
                /\ cnt[p].put_day = 0
                /\ pc[p] = "returned" => cnt[p].hour = 1

\* A call of caller p is in progress.
Running(p) == pc[p] \notin {"idle", "returned", "raised"}

\* C24: every call in progress ends, with a result or with an error, whatever
\* the other caller does.
C24_CallTerminates ==
    \A p \in Procs : Running(p) ~> (Ended(p) /\ ret[p].kind \in {"ok", "raise"})

\* A call that went through both fetches and both puts and returned while the
\* call of the other caller was still in progress.
C24_Witness ==
    \E p, q \in Procs :
        /\ pc[p] = "returned" /\ cnt[p].put_day = 1 /\ cnt[p].put_hour = 1
        /\ Running(q)

\* C25: a non-forced retrieval of a date whose day row holds text that cannot
\* be decoded never serves that dimension from the cache, and when it returns
\* it returns a complete pair holding the day record it fetched, and the day
\* row then holds that record under the create_time it had; symmetrically for
\* the hour row.
C25_UndecodableRowRefetched ==
    \A p \in Procs :
        (pc[p] = "returned" /\ ~args[p].force)
        => /\ Undecodable(pre[p].day)
                => /\ cnt[p].day = 1 /\ cnt[p].put_day = 1
                   /\ Truthy(day_info[p]) /\ Truthy(hour_info[p])
                   /\ ret[p].payload = ResultJson(day_info[p], hour_info[p])
                   /\ DayRow(p) # NoRow
                   /\ DayRow(p).data = dumps(day_info[p])
                   /\ DayRow(p).create_time = pre[p].day.create_time
           /\ Undecodable(pre[p].hour)
                => /\ cnt[p].hour = 1 /\ cnt[p].put_hour = 1
                   /\ Truthy(day_info[p]) /\ Truthy(hour_info[p])
                   /\ ret[p].payload = ResultJson(day_info[p], hour_info[p])
                   /\ HourRow(p) # NoRow
                   /\ HourRow(p).data = dumps(hour_info[p])
                   /\ HourRow(p).create_time = pre[p].hour.create_time

Digits == {"0", "1", "2", "3", "4", "5", "6", "7", "8", "9"}
\* The text has the shape YYYY-MM-DD.
IsIsoDate(k) ==
    /\ Len(k) = 10
    /\ k[5] = "-" /\ k[8] = "-"
    /\ \A i \in {1, 2, 3, 4, 6, 7, 9, 10} : k[i] \in Digits

\* C26: the key built for a date with a four-digit year has the shape
\* YYYY-MM-DD, and keys built for two different dates differ.
C26_KeyIsIsoDateAndInjective ==
    \A p, q \in Procs :
        (args[p] # NoArgs /\ args[q] # NoArgs)
        => /\ IsIsoDate(args[p].key)
           /\ args[p].key = args[q].key => args[p].ymd = args[q].ymd

\* Keys built for January 12 and for November 2 of one year.
C26_Witness ==
    /\ args[1].ymd = <<2025, 1, 12>> /\ args[1].key = date_str(<<2025, 1, 12>>)
    /\ args[2].ymd = <<2025, 11, 2>> /\ args[2].key = date_str(<<2025, 11, 2>>)

\* C27: the call that opens the store, and with it runs the initialization of
\* the tables, leaves every row of both tables as it was.
C27_InitKeepsRows ==
    [][(db_instance = PyNone /\ db_instance' # PyNone) => store' = store]_vars

\* The store has been opened over tables that held a row of the date in each
\* family and a row of another date, and nothing has been written since.
C27_Witness ==
    /\ db_instance # PyNone
    /\ \A f \in Families :
         /\ hist[f] = {}
         /\ {FirstKey, OtherKey} \subseteq DatesOf(store[f])

\* The rows of a table that are not of the date of p's call.
OtherRows(table, p) == {r \in table : r.date # args[p].key}

\* C28: a step of a put of caller p on family f leaves the rows of every other
\* date in f and every row of the other family as they were.
C28_PutTouchesOneRow ==
    [][\A p \in Procs, f \in Families :
          (pc'[p] # pc[p] /\
             \/ f = "day" /\ pc[p] \in {"save_day_select", "save_day_upsert"}
             \/ f = "hour" /\ pc[p] \in {"save_hour_select", "save_hour_upsert"})
          => /\ OtherRows(store'[f], p) = OtherRows(store[f], p)
             /\ \A g \in Families \ {f} : store'[g] = store[g]]_vars

\* A put has changed the day row of the date at a time later than 0, next to
\* the row of another date, and no put was made on the hour family.
C28_Witness ==
    /\ \E e \in hist["day"] : e.date = FirstKey /\ e.time > 0
    /\ hist["hour"] = {}
    /\ \E r \in store["day"] : r.date = OtherKey
    /\ \E r \in store["hour"] : r.date = OtherKey

\* The call of p was served from the cache: it returned without a fetch.
ServedFromCache(p) ==
    pc[p] = "returned" /\ ~args[p].force /\ cnt[p].day = 0 /\ cnt[p].hour = 0

\* C29: a step that is a get of either family changes no row of either table,
\* and a non-forced retrieval served from the cache on both dimensions has made
\* no put and leaves the rows of its date as they were when it began.
C29_ReadsNeverWrite ==
    /\ [][\A p \in Procs :
            (pc[p] \in {"get_day", "get_hour"} /\ pc'[p] # pc[p]) => store' = store]_vars
    /\ [](\A p \in Procs :
            ServedFromCache(p)
            => /\ cnt[p].put_day = 0 /\ cnt[p].put_hour = 0
               /\ DayRow(p) = pre[p].day
               /\ HourRow(p) = pre[p].hour)

\* A retrieval served from rows that an earlier call of the same caller wrote at
\* a time later than 0.
C29_Witness ==
    \E p \in Procs :
        /\ ServedFromCache(p)
        /\ prev[p].kind = "ok"
        /\ DayRow(p) # NoRow /\ DayRow(p).update_time > 0

\* C30: every row of either table has create_time <= update_time.
C30_CreateNotAfterUpdate ==
    \A f \in Families : \A r \in store[f] : r.create_time <= r.update_time

\* The row is there and its data is NULL, the empty text, or the text of an
\* empty record.
HoldsNothing(row) ==
    /\ row # NoRow
    /\ \/ row.data \in {SqlNull, EmptyText}
       \/ Decodable(row.data) /\ ~Truthy(loads(row.data))

\* C31: a get of a row whose data is NULL or the empty text returns None, and
\* a non-forced retrieval that returns, of a date whose day row holds nothing,
\* has fetched the day record and the day row then holds that record;
\* symmetrically for the hour row.
C31_EmptyRowCountsAsMissing ==
    \A p \in Procs :
        /\ (pc[p] = "get_hour" /\ pre[p].day # NoRow
               /\ pre[p].day.data \in {SqlNull, EmptyText})
             => day_info[p] = PyNone
        /\ (pc[p] = "returned" /\ ~args[p].force /\ HoldsNothing(pre[p].day))
             => /\ cnt[p].day = 1 /\ cnt[p].put_day = 1
                /\ Truthy(day_info[p])
                /\ DayRow(p) # NoRow
                /\ DayRow(p).data = dumps(day_info[p])
        /\ (pc[p] = "returned" /\ ~args[p].force /\ HoldsNothing(pre[p].hour))
             => /\ cnt[p].hour = 1 /\ cnt[p].put_hour = 1
                /\ Truthy(hour_info[p])
                /\ HourRow(p) # NoRow
                /\ HourRow(p).data = dumps(hour_info[p])

\* C32: once get_db has returned an instance, the instance kept never changes,
\* and every later call returns that instance, whatever db_path it is given
\* and whether or not opening would fail: the retrieval's get_db() gets the
\* store opened first.
C32_OneInstancePerProcess ==
    /\ [](\A p \in Procs : ret[p].kind = "return" => ret[p].value = db_instance)
    /\ [][db_instance # PyNone
            => /\ db_instance' = db_instance
               /\ \A p \in Procs :
                    ret'[p] # ret[p]
                    => ret'[p].kind = "return" /\ ret'[p].value = db_instance]_vars

\* init_db opened a store at a path other than the default, the retrieval's
\* get_db() then got that store, and a later init_db with a third path got it too.
C32_Witness ==
    /\ db_instance # PyNone
    /\ db_instance.s # DefaultDbPath
    /\ ret[1].kind = "return" /\ ret[1].value = db_instance
    /\ ret[2].kind = "return" /\ ret[2].value = db_instance
    /\ ret[2].db_path.s \notin {DefaultDbPath, db_instance.s}

\* ---------------------------------------------------------------- questions
\* A text is a sequence of characters. A Chinese character is written by its
\* pinyin, a fixed message of the program by one token in brackets.

\* force_refresh_keywords  (calander.py:164, main.py:25)
force_refresh_keywords ==
    {<<"zui", "xin">>,                   \* "最新"
     <<"shua", "xin">>,                  \* "刷新"
     <<"chong", "xin", "huo", "qu">>,    \* "重新获取"
     <<"geng", "xin">>,                  \* "更新"
     <<"chong", "xin", "la", "qu">>,     \* "重新拉取"
     <<"qiang", "zhi", "shua", "xin">>,  \* "强制刷新"
     <<"chong", "xin", "cha", "xun">>}   \* "重新查询"

\* sub in text
In(sub, text) ==
    \E i \in 1..(Len(text) - Len(sub) + 1) : SubSeq(text, i, i + Len(sub) - 1) = sub

\* any(keyword in question for keyword in force_refresh_keywords)
AnyKeyword(question) == \E keyword \in force_refresh_keywords : In(keyword, question)

\* text[i .. i+n-1] are n digits.
IsDigits(text, i, n) ==
    /\ i + n - 1 <= Len(text)
    /\ \A k \in i..(i + n - 1) : text[k] \in Digits

\* \d{1,2} at i, greedy: how many characters it takes (0: no match). Giving
\* one digit back never helps: what follows would be the digit given back.
Take12(text, i) ==
    IF IsDigits(text, i, 2) THEN 2 ELSE IF IsDigits(text, i, 1) THEN 1 ELSE 0

CharAt(text, i, c) == i <= Len(text) /\ text[i] = c

NoMatch == [t |-> "None"]

\* (\d{4})a(\d{1,2})b(\d{1,2})c matched at position i; c = "" for no suffix.
MatchAt(text, i, a, b, c) ==
    IF ~IsDigits(text, i, 4) \/ ~CharAt(text, i + 4, a) THEN NoMatch
    ELSE LET m == i + 5
             x == Take12(text, m)
         IN  IF x = 0 \/ ~CharAt(text, m + x, b) THEN NoMatch
             ELSE LET d == m + x + 1
                      y == Take12(text, d)
                  IN  IF y = 0 \/ (c # "" /\ ~CharAt(text, d + y, c)) THEN NoMatch
                      ELSE [t |-> "match",
                            groups |-> <<SubSeq(text, i, i + 3),
                                         SubSeq(text, m, m + x - 1),
                                         SubSeq(text, d, d + y - 1)>>]

\* re.search: the leftmost match.
re_search(text, a, b, c) ==
    LET hits == {i \in 1..Len(text) : MatchAt(text, i, a, b, c) # NoMatch}
    IN  IF hits = {} THEN NoMatch
        ELSE MatchAt(text, CHOOSE i \in hits : \A j \in hits : i <= j, a, b, c)

\* re.search(r'(\d{4})-(\d{1,2})-(\d{1,2})'), and if it finds nothing
\* re.search(r'(\d{4})年(\d{1,2})月(\d{1,2})日').
date_match(question) ==
    LET dashed == re_search(question, "-", "-", "")
    IN  IF dashed # NoMatch THEN dashed ELSE re_search(question, "nian", "yue", "ri")

DigitVal(c) == CHOOSE n \in 0..9 : DigitChar(n) = c

\* int(digits)
RECURSIVE int(_)
int(digits) ==
    IF digits = <<>> THEN 0
    ELSE 10 * int(SubSeq(digits, 1, Len(digits) - 1)) + DigitVal(digits[Len(digits)])

\* year, month, day = int(group(1)), int(group(2)), int(group(3))
MatchedDate(m) == <<int(m.groups[1]), int(m.groups[2]), int(m.groups[3])>>

\* A wrong detection: the keywords decide, the argument is overwritten.
effective_force_refresh_KeywordOnly(question, force_refresh) == AnyKeyword(question)

\* if not force_refresh: force_refresh = any(keyword in question ...)
\* (calander.py:163-165)
effective_force_refresh(question, force_refresh) ==
    IF ~force_refresh THEN AnyKeyword(question) ELSE force_refresh

\* The characters of two dates: today's, and the one the prompt gives as example.
TodayText == date_str(FirstDate)
ExampleText == date_str(<<2025, 12, 1>>)

\* "无法从问题中提取日期信息" "，请确保问题中包含具体日期（如" 2025-12-01 "）。"
\* (calander.py:156)
NoDateText ==
    <<"[cannot extract a date from the question]", "[make sure it holds a date, as]">>
      \o ExampleText \o <<"[.]">>
\* "请输入具体的时间日期" "或相对日期，如" 2025-12-01 "或今天、明天等"
\* (question.py:34): what the prompt tells the language model to return for a
\* question that holds no date.
AdviceText ==
    <<"[enter a concrete date]", "[or a relative date, as]">>
      \o ExampleText \o <<"[or today, tomorrow]">>
\* "处理问题时出错：" (calander.py:199, question.py:50)
QuestionError == "[error while handling the question:]"
\* "处理工具调用时出错：" (mcp_server.py:171)
ToolError == "[error while handling the tool call:]"
\* "错误：必须提供日期参数", "错误：必须提供问题参数" (mcp_server.py:106, 141)
DateRequiredText == <<"[error: the date argument is required]">>
QuestionRequiredText == <<"[error: the question argument is required]">>
\* "无法解析日期：" date "。请使用相对日期…" (mcp_server.py:119)
CannotParseText(date) == <<"[cannot parse the date:]">> \o date \o <<"[use a date]">>
\* "未知工具：" name (mcp_server.py:165)
UnknownToolText(name) == <<"[unknown tool:]", name>>

\* What users type: a date with or without a keyword, in both formats, with one
\* and two digits; "今天"; no date at all; a keyword cut in two by the date.
Questions ==
    {TodayText \o <<"yi", "ji">>,                                      \* 2025-01-01宜忌
     <<"2", "0", "2", "5", "-", "1", "-", "1", "zui", "xin">>,        \* 2025-1-1最新
     <<"2", "0", "2", "5", "nian", "1", "2", "yue", "1", "ri", "shua", "xin">>,
     <<"jin", "tian", "yi", "ji">>,                                    \* 今天宜忌
     <<"jin", "tian", "chong", "xin", "huo", "qu">>,                   \* 今天重新获取
     <<"yi", "ji">>,                                                   \* 宜忌
     <<"zui", "xin", "yi", "ji">>,                                     \* 最新宜忌
     <<"chong", "xin">> \o TodayText \o <<"huo", "qu">>}               \* 重新2025-01-01获取
\* The date argument of the tool get_calendar_info.
DateArgs ==
    {TodayText, <<"jin", "tian">>, <<"yi", "ji">>,
     <<"2", "0", "2", "5", "nian", "1", "yue", "1", "ri">>}
ToolNames == {"get_calendar_info", "answer_calendar_question", "other"}

\* The language model doing what its prompt says (question.py:20-36): a
\* concrete date is kept, "今天" becomes today's date, and a question with no
\* date is answered by the advice.
llm_convert(question) ==
    IF date_match(question) # NoMatch THEN question
    ELSE LET at == {i \in 1..(Len(question) - 1) :
                      SubSeq(question, i, i + 1) = <<"jin", "tian">>}
         IN  IF at = {} THEN AdviceText
             ELSE LET i == CHOOSE i \in at : \A j \in at : i <= j
                  IN  SubSeq(question, 1, i - 1) \o TodayText
                        \o SubSeq(question, i + 2, Len(question))

\* except Exception as e: return f"...出错：{str(e)}"
Caught(outcome, prefix) ==
    IF outcome.kind = "raise" THEN Return(<<prefix>> \o outcome.msg) ELSE outcome

\* parse_question(question): the model's reply, or the error text when the
\* request fails (question.py:40-50).
parse_question(question, llm_fails) ==
    Caught(IF llm_fails THEN Raise(<<"llm">>) ELSE Return(llm_convert(question)),
           QuestionError).value

\* The handler ends without a retrieval.
Finish(p, rec, outcome) ==
    /\ ask' = [ask EXCEPT ![p] = [rec EXCEPT !.at = "done", !.out = outcome]]
    /\ UNCHANGED <<store, clock, db_instance, pc, args, day_info, hour_info, api, txn,
                   ret, cnt, pre, prev, calls, hist, dates, client, upstream, last, ops>>

\* The handler calls get_calander_info(year, month, day, force_refresh=force).
Retrieve(p, rec, ymd, force) ==
    /\ ask' = [ask EXCEPT ![p] = [rec EXCEPT !.at = "retrieving"]]
    /\ \E open_fails \in BOOLEAN : Enter(p, ymd, force, open_fails)
    /\ UNCHANGED <<clock, calls, hist, dates, client, upstream, last, ops>>

\* The record of a handler call: what the user gave, the text the date is
\* searched in, and the force_refresh argument.
Asked(entry, raw, question, force_refresh, llm_failed) ==
    [at |-> "begin", entry |-> entry, raw |-> raw, question |-> question,
     force_refresh |-> force_refresh, llm_failed |-> llm_failed, out |-> NoRet]

\* answer_question(question, force_refresh), lines 149-168.
answer_question(p, rec) ==
    LET m == date_match(rec.question)
    IN  IF m = NoMatch
        THEN Finish(p, rec, Return(NoDateText))
        ELSE Retrieve(p, rec, MatchedDate(m),
                      effective_force_refresh(rec.question, rec.force_refresh))

\* main(): the keywords are looked for in what the user typed, then the
\* question is parsed and answered (main.py:19-30).
main ==
    /\ \A q \in Procs : ask[q] = NoAsk
    /\ \E raw \in Questions, llm_fails \in BOOLEAN :
         answer_question(1, Asked("main", raw, parse_question(raw, llm_fails),
                                  AnyKeyword(raw), llm_fails))

\* call_tool(name, arguments), lines 95-166, up to the retrieval.
call_tool ==
    /\ \A q \in Procs : ask[q] = NoAsk
    /\ \E name \in ToolNames, force_refresh \in BOOLEAN, llm_fails \in BOOLEAN :
         CASE name = "get_calendar_info" ->
                \E date \in DateArgs \cup {<<>>} :
                  LET parsed == parse_question(<<"cha", "xun">> \o date
                                                 \o <<"de", "huang", "li", "xin", "xi">>,
                                               llm_fails)
                      rec == Asked(name, date, parsed, force_refresh, llm_fails)
                      m == date_match(parsed)
                  IN  IF date = <<>>
                      THEN Finish(2, Asked(name, date, <<>>, force_refresh, FALSE),
                                  Return(DateRequiredText))
                      ELSE IF m = NoMatch
                      THEN Finish(2, rec, Return(CannotParseText(date)))
                      ELSE Retrieve(2, rec, MatchedDate(m), force_refresh)
           [] name = "answer_calendar_question" ->
                \E question \in Questions \cup {<<>>} :
                  LET parsed == parse_question(question, llm_fails)
                      rec == Asked(name, question, parsed, force_refresh, llm_fails)
                  IN  IF question = <<>>
                      THEN Finish(2, Asked(name, question, <<>>, force_refresh, FALSE),
                                  Return(QuestionRequiredText))
                      ELSE IF \/ In(<<NoDateText[1]>>, parsed)
                              \/ In(<<AdviceText[1]>>, parsed)
                      THEN Finish(2, rec, Return(parsed))
                      ELSE answer_question(2, rec)
           [] OTHER ->
                Finish(2, Asked(name, <<>>, <<>>, force_refresh, FALSE),
                       Return(UnknownToolText(name)))

\* answer_question, lines 170-199, after the retrieval: the answer of the
\* language model, or the error of the retrieval or of the model as a text.
answer_question_return(p) ==
    /\ ask[p].at = "retrieving"
    /\ ask[p].entry \in {"main", "answer_calendar_question"}
    /\ Ended(p)
    /\ \E chat_fails \in BOOLEAN :
         LET outcome == IF ret[p].kind = "raise" THEN Raise(ret[p].msg)
                        ELSE IF chat_fails THEN Raise(<<"llm">>)
                        ELSE Return(<<"[answer]">>)
         IN  Finish(p, [ask[p] EXCEPT !.llm_failed = @ \/ (ret[p].kind # "raise" /\ chat_fails)],
                    Caught(Caught(outcome, QuestionError), ToolError))

\* call_tool, lines 127-132 and 168-172: the pair as text, or the error text.
get_calendar_info_return ==
    /\ ask[2].at = "retrieving"
    /\ ask[2].entry = "get_calendar_info"
    /\ Ended(2)
    /\ Finish(2, ask[2],
              Caught(IF ret[2].kind = "raise" THEN Raise(ret[2].msg)
                     ELSE Return(ret[2].payload), ToolError))

\* One handler call on a store that main() or the server's main() opened at
\* startup with init_db(); the date's rows are both there or both missing.
InitAnswer ==
    /\ clock = 0
    /\ db_instance = PyStr(DefaultDbPath)
    /\ pc = [p \in Procs |-> "idle"]
    /\ args = [p \in Procs |-> NoArgs]
    /\ day_info = [p \in Procs |-> PyNone]
    /\ hour_info = [p \in Procs |-> PyNone]
    /\ api = [p \in Procs |-> PyNone]
    /\ txn = [p \in Procs |-> NoTxn]
    /\ ret = [p \in Procs |-> NoRet]
    /\ cnt = [p \in Procs |-> ZeroCnt]
    /\ pre = [p \in Procs |-> NoPre]
    /\ prev = [p \in Procs |-> NoPrev]
    /\ hist = [f \in Families |-> {}]
    /\ ask = [p \in Procs |-> NoAsk]
    /\ InitNoClient
    /\ \E rows \in InitRowSets(FirstKey, {ValidText}) : store = [f \in Families |-> rows]
    /\ calls = [p \in Procs |-> 0]
    /\ dates = [p \in Procs |-> {FirstDate}]

NextAnswer ==
    \/ main
    \/ call_tool
    \/ \E p \in Procs : Run(p)
    \/ \E p \in Procs : answer_question_return(p)
    \/ get_calendar_info_return

\* The command line and the tool server answering one request.
SpecAnswer == InitAnswer /\ [][NextAnswer]_vars

\* The call of caller p went through answer_question and reached the retrieval.
Answering(p) ==
    /\ ask[p].at \in {"retrieving", "done"}
    /\ ask[p].entry \in {"main", "answer_calendar_question"}
    /\ pc[p] # "idle"

\* C33: the retrieval that answer_question starts is forced exactly when its
\* force_refresh argument is true or its question contains a refresh keyword:
\* with force_refresh=True the store is never read and both dimensions are
\* fetched before a result is returned, and with force_refresh=False and no
\* keyword the retrieval begins by reading the store.
C33_ForcedIffArgumentOrKeyword ==
    /\ [](\A p \in Procs :
            Answering(p)
            => /\ args[p].force <=> (ask[p].force_refresh \/ AnyKeyword(ask[p].question))
               /\ ask[p].force_refresh
                    => /\ pc[p] \notin {"get_day", "get_hour"}
                       /\ pc[p] = "returned" => cnt[p].day = 1 /\ cnt[p].hour = 1)
    /\ [][\A p \in Procs :
            (ask[p] = NoAsk /\ Answering(p)')
            => pc'[p] = IF ask'[p].force_refresh \/ AnyKeyword(ask'[p].question)
                        THEN "fetch_day" ELSE "get_day"]_vars

\* The tool was called with force_refresh=True and a question without a
\* keyword, for a date both of whose rows hold a record, and the retrieval
\* returned after fetching both dimensions.
C33_Witness ==
    /\ Answering(2)
    /\ ask[2].force_refresh /\ ~AnyKeyword(ask[2].question)
    /\ HoldsRecord(pre[2].day) /\ HoldsRecord(pre[2].hour)
    /\ pc[2] = "returned" /\ cnt[2].day = 1 /\ cnt[2].hour = 1

\* The text is one of the messages the handlers return instead of an answer.
IsErrorText(text) ==
    /\ text # <<>>
    /\ text[1] \in {NoDateText[1], AdviceText[1], QuestionError, ToolError,
                    DateRequiredText[1], QuestionRequiredText[1],
                    CannotParseText(<<>>)[1], UnknownToolText("")[1]}

\* What the user gave holds no date: no concrete date and no "今天".
HoldsNoDate(raw) == date_match(raw) = NoMatch /\ ~In(<<"jin", "tian">>, raw)

\* No retrieval was started for caller p and the store is as it was.
NothingDone(p) ==
    /\ pc[p] = "idle" /\ args[p] = NoArgs /\ cnt[p] = ZeroCnt
    /\ hist = [f \in Families |-> {}]

\* C34: a handler call that has ended returned a text and did not raise; the
\* text is an error text when the tool was given a question or a date argument
\* that holds no date, when the retrieval raised, and when a request to the
\* language model failed; and when no date was found in the text searched,
\* and when the tool was given no date, no retrieval was started.
C34_HandlersReturnErrorText ==
    \A p \in Procs :
        ask[p].at = "done"
        => /\ ask[p].out.kind = "return"
           /\ (ask[p].entry \in {"get_calendar_info", "answer_calendar_question"}
                 /\ HoldsNoDate(ask[p].raw))
                => IsErrorText(ask[p].out.value) /\ NothingDone(p)
           /\ pc[p] = "raised"
                => /\ IsErrorText(ask[p].out.value)
                   /\ In(ret[p].msg, ask[p].out.value)
           /\ ask[p].llm_failed => IsErrorText(ask[p].out.value)
           /\ date_match(ask[p].question) = NoMatch
                => IsErrorText(ask[p].out.value) /\ NothingDone(p)

\* ---------------------------------------------------------------- providers
UpperCase == <<"A", "B", "C", "D", "E", "F", "G", "H", "I", "J", "K", "L", "M",
               "N", "O", "P", "Q", "R", "S", "T", "U", "V", "W", "X", "Y", "Z">>
LowerCase == <<"a", "b", "c", "d", "e", "f", "g", "h", "i", "j", "k", "l", "m",
               "n", "o", "p", "q", "r", "s", "t", "u", "v", "w", "x", "y", "z">>
lower_char(c) ==
    IF \E i \in DOMAIN UpperCase : UpperCase[i] = c
    THEN LowerCase[CHOOSE i \in DOMAIN UpperCase : UpperCase[i] = c]
    ELSE c
\* provider.lower()
lower(provider) == [i \in DOMAIN provider |-> lower_char(provider[i])]

\* The names create_llm_client's documentation lists (llm_client.py:35).
DocumentedProviders ==
    {<<"o", "p", "e", "n", "a", "i">>,
     <<"q", "w", "e", "n">>,
     <<"z", "h", "i", "p", "u">>,
     <<"d", "e", "e", "p", "s", "e", "e", "k">>,
     <<"d", "o", "u", "b", "a", "o">>}
\* The default of the provider argument (llm_client.py:30, agent.py:14).
DefaultProvider == <<"o", "p", "e", "n", "a", "i">>
\* Names a caller may give: the documented ones in several spellings, others,
\* and a documented one with a trailing blank.
ProviderNames ==
    {<<"o", "p", "e", "n", "a", "i">>,
     <<"O", "p", "e", "n", "A", "I">>,
     <<"O", "P", "E", "N", "A", "I">>,
     <<"q", "w", "e", "n">>,
     <<"Q", "w", "e", "n">>,
     <<"z", "h", "i", "p", "u">>,
     <<"Z", "H", "I", "P", "U">>,
     <<"d", "e", "e", "p", "s", "e", "e", "k">>,
     <<"D", "e", "e", "p", "S", "e", "e", "k">>,
     <<"d", "o", "u", "b", "a", "o">>,
     <<"D", "o", "u", "b", "a", "o">>,
     <<"c", "l", "a", "u", "d", "e">>,
     <<"q", "i", "a", "n", "w", "e", "n">>,
     <<"g", "p", "t">>,
     <<"o", "p", "e", "n", "a", "i", " ">>}

\* A client of the given class.
Client(class) == [t |-> "client", class |-> class]
\* XxxClient(**kwargs): the constructors raise ValueError when neither an
\* api_key argument nor the provider's environment variable gives a key
\* (deepseek.py:33, doubao.py:33, qianwen.py:33, zhipu.py:33).
Construct(class, has_key) ==
    IF has_key THEN Return(Client(class)) ELSE Raise(<<"ValueError", "api_key", class>>)

\* create_llm_client(provider, **kwargs)  (llm_client.py:41-59)
create_llm_client(provider, has_key) ==
    LET provider_lower == lower(provider)
    IN  IF provider_lower = <<"q", "w", "e", "n">> THEN Construct("QwenClient", has_key)
        ELSE IF provider_lower = <<"z", "h", "i", "p", "u">> THEN Construct("ZhipuClient", has_key)
        ELSE IF provider_lower = <<"d", "e", "e", "p", "s", "e", "e", "k">> THEN Construct("DeepSeekClient", has_key)
        ELSE IF provider_lower = <<"d", "o", "u", "b", "a", "o">> THEN Construct("DoubaoClient", has_key)
        ELSE Raise(<<"ValueError", "provider">> \o provider)

\* One call of create_llm_client by caller p.
new_client(p, provider) ==
    /\ \E has_key \in BOOLEAN :
         ask' = [ask EXCEPT ![p] = [at |-> "client", provider |-> provider,
                                    has_key |-> has_key,
                                    out |-> create_llm_client(provider, has_key)]]
    /\ UNCHANGED <<store, clock, db_instance, pc, args, day_info, hour_info, api, txn,
                   ret, cnt, pre, prev, calls, hist, dates, client, upstream, last, ops>>

\* create_llm_client() with the default provider.
create_default == \E p \in Procs : new_client(p, DefaultProvider)

\* create_llm_client(provider) with a given name.
create_named == \E p \in Procs, provider \in ProviderNames : new_client(p, provider)

InitLlm ==
    /\ InitCommon
    /\ InitNoClient
    /\ store = [f \in Families |-> {}]
    /\ calls = [p \in Procs |-> 0]
    /\ dates = [p \in Procs |-> {FirstDate}]

NextLlm == create_default \/ create_named

\* Callers that only create language-model clients.
SpecLlm == InitLlm /\ [][NextLlm]_vars

\* Two names that differ in case only.
SameName(a, b) ==
    /\ Len(a) = Len(b)
    /\ \A i \in 1..Len(a) : lower_char(a[i]) = lower_char(b[i])

\* C35: with a key at hand, create_llm_client returns a client for every name
\* that is, up to case, one of "openai", "qwen", "zhipu", "deepseek", "doubao",
\* the default "openai" included, and it raises ValueError for every other name.
C35_ClientForEachDocumentedProvider ==
    \A p \in Procs :
        ask[p].at = "client"
        => IF \E name \in DocumentedProviders : SameName(ask[p].provider, name)
           THEN ask[p].has_key
                  => ask[p].out.kind = "return" /\ ask[p].out.value.t = "client"
           ELSE ask[p].out.kind = "raise" /\ ask[p].out.msg[1] = "ValueError"

====
